---- MODULE Spec2Model ----
(***************************************************************************)
(* Agent loop of ai-flask-app: the prompt formatter and the output parser  *)
(* of src/langchain.py, the executor loop that handle_chat_with_agents     *)
(* configures and runs, and the replicate tool adapters of                 *)
(* src/tools/replicate.py.                                                 *)
(*                                                                         *)
(* Texts are sequences of lexemes: the three markers the parser looks for, *)
(* the characters it treats specially (space, newline, double quote) and   *)
(* opaque words.  No marker starts or ends with one of those characters    *)
(* and none can arise from the juxtaposition of other lexemes, so          *)
(* substring search and stripping on the text are element-wise here.       *)
(***************************************************************************)
EXTENDS Integers, Sequences, FiniteSets, TLC

\* ------------------------------------------------------------- lexemes
FinalMarker == "Final Answer:"
ActionMarker == "Action:"
InputMarker == "Action Input:"
NL == "\n"
SP == " "
QUOTE == "\""
Word == "w"

\* what str.strip() and the regex class \s remove
Whitespace == {SP, NL}

\* ------------------------------------------------------------- bounds
MaxTextLen == 5
MaxIterBound == 2
MaxFormatCalls == 2

\* ------------------------------------------------------ string helpers
RECURSIVE LStrip(_, _)
LStrip(s, chars) ==
    IF s = <<>> \/ s[1] \notin chars THEN s ELSE LStrip(Tail(s), chars)

RECURSIVE RStrip(_, _)
RStrip(s, chars) ==
    IF s = <<>> \/ s[Len(s)] \notin chars THEN s
    ELSE RStrip(SubSeq(s, 1, Len(s) - 1), chars)

\* str.strip(chars)
StripChars(s, chars) == RStrip(LStrip(s, chars), chars)

\* str.strip()
Strip(s) == StripChars(s, Whitespace)

\* marker in s
Contains(s, marker) == \E i \in 1..Len(s) : s[i] = marker

\* the text after the first occurrence of marker (s when absent)
SplitAfterFirst(s, marker) ==
    IF ~Contains(s, marker) THEN s
    ELSE LET i == CHOOSE k \in 1..Len(s) :
                      s[k] = marker /\ \A m \in 1..(k - 1) : s[m] # marker
         IN  SubSeq(s, i + 1, Len(s))

\* s.split(marker)[-1]: the text after the last occurrence (s when absent)
SplitLast(s, marker) ==
    IF ~Contains(s, marker) THEN s
    ELSE LET i == CHOOSE k \in 1..Len(s) :
                      s[k] = marker /\ \A m \in (k + 1)..Len(s) : s[m] # marker
         IN  SubSeq(s, i + 1, Len(s))

\* -------------------------------------------------------------- parser
\* re.search(r"Action: (.*?)[\n]*Action Input:[\s]*(.*)", text, re.DOTALL):
\* the leftmost "Action:" followed by a space, the lazy group up to the newlines before the
\* first "Action Input:" after it, the greedy whitespace skip, the rest.
ReSearch(text) ==
    LET IsAction(k) ==
            k < Len(text) /\ text[k] = ActionMarker /\ text[k + 1] = SP
        hasA == \E k \in 1..Len(text) : IsAction(k)
        i == IF hasA
             THEN CHOOSE k \in 1..Len(text) :
                      IsAction(k) /\ \A m \in 1..(k - 1) : ~IsAction(m)
             ELSE 0
        hasI == hasA /\ \E k \in (i + 2)..Len(text) : text[k] = InputMarker
        j == IF hasI
             THEN CHOOSE k \in (i + 2)..Len(text) :
                      text[k] = InputMarker
                      /\ \A m \in (i + 2)..(k - 1) : text[m] # InputMarker
             ELSE 0
        g1end == IF hasI
                 THEN CHOOSE p \in (i + 2)..j :
                          (\A m \in p..(j - 1) : text[m] = NL)
                          /\ \A q \in (i + 2)..(p - 1) :
                                \E m \in q..(j - 1) : text[m] # NL
                 ELSE 0
        g2start == IF hasI
                   THEN CHOOSE p \in (j + 1)..(Len(text) + 1) :
                            (\A m \in (j + 1)..(p - 1) : text[m] \in Whitespace)
                            /\ (p <= Len(text) => text[p] \notin Whitespace)
                   ELSE 0
    IN  IF hasI
        THEN [matched |-> TRUE,
              group1 |-> SubSeq(text, i + 2, g1end - 1),
              group2 |-> SubSeq(text, g2start, Len(text))]
        ELSE [matched |-> FALSE, group1 |-> <<>>, group2 |-> <<>>]

\* match.group(2).strip(" ").strip('"')
ActionInput(group2) == StripChars(StripChars(group2, {SP}), {QUOTE})

\* llm_output.split("Final Answer:")[-1].strip()
FinalOutput(llm_output) == Strip(SplitLast(llm_output, FinalMarker))

\* a parser that takes a text it cannot match as the final answer
ParseLenient(llm_output) ==
    IF Contains(llm_output, FinalMarker)
    THEN [kind |-> "AgentFinish", output |-> FinalOutput(llm_output),
          log |-> llm_output]
    ELSE LET match == ReSearch(llm_output)
         IN  IF ~match.matched
             THEN [kind |-> "AgentFinish", output |-> Strip(llm_output),
                   log |-> llm_output]
             ELSE [kind |-> "AgentAction", tool |-> Strip(match.group1),
                   tool_input |-> ActionInput(match.group2),
                   log |-> llm_output]

\* CustomOutputParser.parse: AgentFinish, AgentAction or ValueError
Parse(llm_output) ==
    IF Contains(llm_output, FinalMarker)
    THEN [kind |-> "AgentFinish", output |-> FinalOutput(llm_output),
          log |-> llm_output]
    ELSE LET match == ReSearch(llm_output)
         IN  IF ~match.matched
             THEN [kind |-> "ValueError",
                   args |-> <<"Could not parse LLM output: ">>
                            \o llm_output]
             ELSE [kind |-> "AgentAction", tool |-> Strip(match.group1),
                   tool_input |-> ActionInput(match.group2),
                   log |-> llm_output]

\* ------------------------------------------------------- tool catalog
\* a catalog whose tools hand their result back to the loop
ReplicateNotReturnDirect == FALSE

\* every @tool of replicate.py is declared return_direct=True
ReplicateReturnDirect == TRUE

ReplicateTool(name, model_name, model_version, output_type) ==
    [name |-> name, adapter |-> "replicate", model_name |-> model_name,
     model_version |-> model_version, output_type |-> output_type,
     return_direct |-> ReplicateReturnDirect]

stable_diffusion ==
    ReplicateTool("stable-diffusion", "stability-ai/stable-diffusion",
        "db21e45d3f7023abc2a46ee38a23973f6dce16bb082a930b0c49861f96d1e5bf",
        "image")
openjourney ==
    ReplicateTool("openjourney", "prompthero/openjourney",
        "9936c2001faa2194a261c01381f90e65261879985476014a0a37a334593a05eb",
        "image")
blip_2 ==
    ReplicateTool("blip-2", "andreasjansson/blip-2",
        "4b32258c42e9efd4288bb9910bc532a69727f9acd26aa08e175713a0a857a608",
        "text")
img2prompt ==
    ReplicateTool("img2prompt", "methexis-inc/img2prompt",
        "50adaf2d3ad20a6f911a8a9e3ccf777b263b8596fbd2c8fc26e8888f8a0edbb5",
        "text")
controlnet_hough ==
    ReplicateTool("controlnet-hough", "jagilley/controlnet-hough",
        "854e8727697a057c525cdb45ab037f64ecca770a1769cc52287c2e56472a247b",
        "image")
controlnet_scribble ==
    ReplicateTool("controlnet-scribble", "jagilley/controlnet-scribble",
        "435061a1b5a4c1e26740464bf786efdfa9cb3a3ac488595a2de23e143fdb0117",
        "image")
instruct_pix2pix ==
    ReplicateTool("instruct-pix2pix", "timothybrooks/instruct-pix2pix",
        "30c1d0b916a6f8efce20493f5d61ee27491ab2a60437c13c588468b9810ec23f",
        "image")
codeformer ==
    ReplicateTool("codeformer", "sczhou/codeformer",
        "7de2ea26c616d5bf2245ad0d5e24f0ff9a6204578a5c876db53142edd9d2cd56",
        "single_image")
audio_ldm ==
    ReplicateTool("audio-ldm", "haoheliu/audio-ldm",
        "b61392adecdd660326fc9cfc5398182437dbe5e97b5decfb36e1a36de68b5b95",
        "audio")

\* replicate.tools
ReplicateTools ==
    <<stable_diffusion, openjourney, blip_2, img2prompt, controlnet_hough,
      controlnet_scribble, instruct_pix2pix, codeformer, audio_ldm>>

\* A registry tool outside the replicate catalog: an ordinary Tool, which is
\* not return-direct and whose failures are raised, not captured.
search_tool ==
    [name |-> "search", adapter |-> "plain", model_name |-> "",
     model_version |-> "", output_type |-> "", return_direct |-> FALSE]

\* the registry behind get_tools / get_tools_by_query
Registry == ReplicateTools \o <<search_tool>>

RECURSIVE SelectSeq2(_, _)
SelectSeq2(names, acc) ==
    IF names = <<>> THEN acc
    ELSE LET hits == SelectSeq(Registry, LAMBDA t : t.name = names[1])
         IN  SelectSeq2(Tail(names), acc \o hits)

\* get_tools(tool_names): exact-name lookup, unknown names dropped
get_tools(names) == SelectSeq2(names, <<>>)

\* get_tools_by_query(prompt): a registry-chosen subset
get_tools_by_query ==
    {<<>>, <<stable_diffusion>>, <<search_tool>>, <<blip_2, search_tool>>}

\* ------------------------------------------------------- tool adapters
JsonPayload == "{json}"

\* decode_protected_output + parse_json_string succeed on the payload
InputDecodes(query) == query = <<JsonPayload>>

\* keys of the job-creation response that replicate.predictions.create
\* returns, as json.loads(prediction.json()) yields them
PredictionKeys == {"id", "version", "status", "input", "output", "urls"}

\* an adapter that leaves the version in the job record
create_prediction_keeps_version(model_name, model_version, query, output_type) ==
    IF ~InputDecodes(query)
    THEN {[kind |-> "dict", success |-> FALSE, error |-> "DecodeError"]}
    ELSE {[kind |-> "dict", success |-> FALSE, error |-> "BackendError"],
          [kind |-> "dict", success |-> TRUE,
           replicate |-> [keys |-> PredictionKeys \cup {"output_type"},
                          output_type |-> output_type],
           input |-> query,
           model |-> [name |-> model_name, version |-> model_version]]}

\* create_prediction: every result the call can return.  The decode or the
\* backend may raise; the except branch turns either into success:false.
create_prediction(model_name, model_version, query, output_type) ==
    IF ~InputDecodes(query)
    THEN {[kind |-> "dict", success |-> FALSE, error |-> "DecodeError"]}
    ELSE {[kind |-> "dict", success |-> FALSE, error |-> "BackendError"],
          [kind |-> "dict", success |-> TRUE,
           replicate |-> [keys |-> (PredictionKeys \cup {"output_type"})
                                      \ {"version"},
                          output_type |-> output_type],
           input |-> query,
           model |-> [name |-> model_name, version |-> model_version]]}

\* an ordinary tool returns a text or raises
PlainToolOutcomes ==
    {[raised |-> FALSE,
      observation |-> [kind |-> "str", text |-> "search result"]],
     [raised |-> TRUE,
      observation |-> [kind |-> "str", text |-> "ToolError"]]}

\* an adapter that decodes its input before entering the try block
ToolOutcomesDecodeRaises(t, tool_input) ==
    IF t.adapter = "replicate"
    THEN IF ~InputDecodes(tool_input)
         THEN {[raised |-> TRUE,
                observation |-> [kind |-> "str", text |-> "DecodeError"]]}
         ELSE {[raised |-> FALSE, observation |-> r] :
                 r \in create_prediction(t.model_name, t.model_version,
                                         tool_input, t.output_type)}
    ELSE PlainToolOutcomes

\* what running tool t on tool_input can do: return an observation or raise
ToolOutcomes(t, tool_input) ==
    IF t.adapter = "replicate"
    THEN {[raised |-> FALSE, observation |-> r] :
            r \in create_prediction(t.model_name, t.model_version,
                                    tool_input, t.output_type)}
    ELSE PlainToolOutcomes

\* InvalidTool().run(name)
InvalidToolObservation(tool) ==
    [kind |-> "str", text |-> "is not a valid tool, try another one.",
     tool |-> tool]

\* --------------------------------------------------------------- state
VARIABLES
    pc,                 \* "setup" | "thinking" | "acting" | "finished" | "failed" | "parser"
    actor,              \* persona substituted into the template
    chat_history,       \* caller's history lines
    tool_names,         \* caller's requested tool names
    max_iterations,     \* the executor's iteration cap
    thoughts_cb,        \* whether a progress callback is configured
    tools,              \* resolved tool list, frozen for the run
    intermediate_steps, \* the executor's (action, observation) trace
    iterations,         \* the executor's loop counter
    llm_output,         \* text the parser was last given
    parsed,             \* what the parser last returned (the pending action)
    result,             \* handle_chat_with_agents' return value
    events,             \* log of model calls, tool calls and trace appends
    tool_calls,         \* log of tool invocations
    cb_calls,           \* log of the payloads passed to thoughts_cb
    formatted           \* what format_messages last returned

vars == <<pc, actor, chat_history, tool_names, max_iterations, thoughts_cb,
          tools, intermediate_steps, iterations, llm_output, parsed, result,
          events, tool_calls, cb_calls, formatted>>

inputs == <<actor, chat_history, tool_names, max_iterations, thoughts_cb>>

NotParsed == [kind |-> "none"]
NoResult == [returned |-> FALSE]
NotFormatted == [content |-> <<>>]

\* ----------------------------------------------------- caller's inputs
Personas == {"assistant", "{persona}"}
Histories == {<<>>, <<"Human: hi", "AI: hello">>}
ToolNameLists ==
    {<<>>, <<"stable-diffusion">>, <<"blip-2", "search">>, <<"search">>,
     <<"no-such-tool">>}

\* texts the model may answer with
ActionText(tool, payload) ==
    <<"Thought:", SP, Word, NL, ActionMarker, SP, tool, NL, InputMarker,
      SP, payload>>

ModelTexts ==
    {ActionText(t, q) : t \in {"stable-diffusion", "search", "bogus"},
                        q \in {JsonPayload, Word}}
    \cup {<<"Thought:", SP, Word, NL, FinalMarker, SP, Word>>,
          <<ActionMarker, SP, "search", NL, InputMarker, SP, JsonPayload, NL,
            FinalMarker, SP, Word, NL>>,
          <<Word, SP, Word>>}

\* ------------------------------------------------------------ formatter
\* f"{observation}"
ObsText(o) ==
    IF o.kind = "str" THEN o.text
    ELSE IF o.success THEN "{'success': True, ...}"
    ELSE "{'success': False, ...}"

\* latest_thoughts after the loop over intermediate_steps
LatestThoughts(steps) ==
    IF steps = <<>> THEN <<>>
    ELSE LET last == steps[Len(steps)]
         IN  last.action.log
             \o <<NL, NL, "Observation: ", ObsText(last.observation)>>

\* if self.thoughts_cb: self.thoughts_cb(latest_thoughts.strip())
CallbackCalls(cb, steps) ==
    IF cb THEN <<Strip(LatestThoughts(steps))>> ELSE <<>>

\* self.template.format(**kwargs) raises KeyError on a placeholder that the
\* persona brought into the template
FormatRaises(a) == a = "{persona}"

\* sep.join(lines), each line one lexeme
RECURSIVE Join(_, _)
Join(lines, sep) ==
    IF lines = <<>> THEN <<>>
    ELSE IF Len(lines) = 1 THEN <<lines[1]>>
    ELSE <<lines[1], sep>> \o Join(Tail(lines), sep)

\* agent_scratchpad: the logs and observations of the trace, in order
RECURSIVE Scratchpad(_)
Scratchpad(steps) ==
    IF steps = <<>> THEN <<>>
    ELSE steps[1].action.log
         \o <<NL, "Observation: ", ObsText(steps[1].observation), NL,
              "Thought: ">>
         \o Scratchpad(Tail(steps))

\* kwargs["tools"]: one "<name>: <description>" line per tool
RECURSIVE ToolsSection(_)
ToolsSection(ts) ==
    IF ts = <<>> THEN <<>>
    ELSE <<ts[1].name, ": ", "description">>
         \o (IF Len(ts) = 1 THEN <<>> ELSE <<NL>>)
         \o ToolsSection(Tail(ts))

\* kwargs["tool_names"]
ToolNamesSection(ts) == Join([i \in 1..Len(ts) |-> ts[i].name], ", ")

HistoryLabel == "Previous conversation history:"

\* a history section that always carries its label
ChatHistorySectionAlwaysLabelled(history) ==
    <<HistoryLabel, NL>> \o Join(history, NL)

\* kwargs["chat_history"]
ChatHistorySection(history) ==
    IF history # <<>> THEN <<HistoryLabel, NL>> \o Join(history, NL)
    ELSE <<>>

\* encode_protected_output(prompt), the {input} of the template
InputText == <<"question">>

\* format_messages: the kwargs it builds and the template filled with them
FormatMessages(steps, ts, history, a) ==
    [agent_scratchpad |-> Scratchpad(steps),
     tools |-> ToolsSection(ts),
     tool_names |-> ToolNamesSection(ts),
     chat_history |-> ChatHistorySection(history),
     content |->
        <<"Act as a ", a, " and ... access to the following tools:", NL, NL>>
        \o ToolsSection(ts)
        \o <<NL, NL, "You must use ... only be one of [">>
        \o ToolNamesSection(ts)
        \o <<"], don't include ... Remember to speak as a ", a,
             " when giving ... use the tools.", NL, NL>>
        \o ChatHistorySection(history)
        \o <<NL, NL, "Question: ">> \o InputText \o <<NL>>
        \o Scratchpad(steps)]

\* ------------------------------------------------------------- executor
\* a loop test that lets one iteration too many through
ShouldContinueOffByOne(iters, cap) == iters <= cap

\* AgentExecutor._should_continue
ShouldContinue(iters, cap) == iters < cap

\* an except clause that catches ValueError only: anything else leaves
\* handle_chat_with_agents as a raw fault
FailureOnlyValueError(class, args) ==
    IF class = "ValueError"
    THEN [returned |-> TRUE, success |-> FALSE,
          error |-> [class |-> class, args |-> args]]
    ELSE [returned |-> FALSE]

\* the except branch of handle_chat_with_agents
Failure(class, args) ==
    [returned |-> TRUE, success |-> FALSE,
     error |-> [class |-> class, args |-> args]]

\* an executor that does not hand the trace back
SuccessWithoutTrace(output, steps) ==
    [returned |-> TRUE, success |-> TRUE, output |-> output,
     intermediate_steps |-> <<>>]

\* result of agent_executor(...) with result["success"] = True
Success(output, steps) ==
    [returned |-> TRUE, success |-> TRUE, output |-> output,
     intermediate_steps |-> steps]

TextOutput(text) == [kind |-> "text", text |-> text]
DirectOutput(o) == [kind |-> "observation", observation |-> o]

\* return_stopped_response("force", ...)
StoppedOutput ==
    TextOutput(<<"Agent stopped due to iteration limit or time limit.">>)

\* a loop that ends at the cap without handing anything back
LoopTestNoReturn(iters, steps) ==
    IF ShouldContinue(iters, max_iterations)
    THEN pc' = "thinking" /\ result' = result
    ELSE pc' = "stopped" /\ result' = result

\* the while test of the executor loop, and the stop when it fails
LoopTest(iters, steps) ==
    IF ShouldContinue(iters, max_iterations)
    THEN pc' = "thinking" /\ result' = result
    ELSE pc' = "finished" /\ result' = Success(StoppedOutput, steps)

\* agent_action.tool in name_to_tool_map
KnownTool(tool) == \E i \in 1..Len(tools) : tool = <<tools[i].name>>
ToolNamed(tool) ==
    tools[CHOOSE i \in 1..Len(tools) : tool = <<tools[i].name>>]

Init ==
    /\ pc = "setup"
    /\ actor \in Personas
    /\ chat_history \in Histories
    /\ tool_names \in ToolNameLists
    /\ max_iterations \in 0..MaxIterBound
    /\ thoughts_cb \in BOOLEAN
    /\ tools = <<>>
    /\ intermediate_steps = <<>>
    /\ iterations = 0
    /\ llm_output = <<>>
    /\ parsed = NotParsed
    /\ result = NoResult
    /\ events = <<>>
    /\ tool_calls = <<>>
    /\ cb_calls = <<>>
    /\ formatted = NotFormatted

\* handle_chat_with_agents up to the executor's first loop test
Setup ==
    /\ pc = "setup"
    /\ UNCHANGED <<inputs, intermediate_steps, iterations, llm_output, parsed,
                   events, tool_calls, cb_calls, formatted>>
    /\ \/ /\ tools' = tools
          /\ pc' = "failed"
          /\ result' = Failure("Exception", <<"setup">>)
       \/ /\ tools' \in (IF tool_names = <<>> THEN get_tools_by_query
                         ELSE {get_tools(tool_names)})
          /\ LoopTest(0, <<>>)

\* a loop that asks the model again when its text does not parse
AfterParseRetries(kind) ==
    CASE kind = "AgentFinish" -> "finished"
      [] kind = "AgentAction" -> "acting"
      [] OTHER -> "thinking"

\* where the run goes after the parse: AgentFinish returns, AgentAction is
\* dispatched, the parser's ValueError leaves the executor
AfterParse(kind) ==
    CASE kind = "AgentFinish" -> "finished"
      [] kind = "AgentAction" -> "acting"
      [] OTHER -> "failed"

\* one agent.plan: format_messages, the model call, the parse
Think ==
    /\ pc = "thinking"
    /\ cb_calls' = cb_calls \o CallbackCalls(thoughts_cb, intermediate_steps)
    /\ UNCHANGED <<inputs, tools, intermediate_steps, iterations, tool_calls>>
    /\ IF FormatRaises(actor)
       THEN /\ pc' = "failed"
            /\ result' = Failure("KeyError", <<"persona">>)
            /\ UNCHANGED <<llm_output, parsed, events, formatted>>
       ELSE /\ events' = Append(events, "model_call")
            /\ formatted' = FormatMessages(intermediate_steps, tools,
                                           chat_history, actor)
            /\ \/ /\ pc' = "failed"
                  /\ result' = Failure("BackendError", <<"model call">>)
                  /\ UNCHANGED <<llm_output, parsed>>
               \/ \E text \in ModelTexts :
                    /\ llm_output' = text
                    /\ parsed' = Parse(text)
                    /\ pc' = AfterParse(parsed'.kind)
                    /\ result' =
                         CASE parsed'.kind = "AgentFinish" ->
                                Success(TextOutput(parsed'.output),
                                        intermediate_steps)
                           [] parsed'.kind = "AgentAction" -> result
                           [] OTHER -> Failure("ValueError", parsed'.args)

\* a step that runs the tool a second time before recording it
RunToolTwice ==
    LET t == ToolNamed(parsed.tool)
        call == [tool |-> t.name, tool_input |-> parsed.tool_input]
    IN
    \E oc \in ToolOutcomes(t, parsed.tool_input) :
      /\ ~oc.raised
      /\ tool_calls' = tool_calls \o <<call, call>>
      /\ intermediate_steps' = Append(intermediate_steps,
             [action |-> parsed, observation |-> oc.observation])
      /\ events' = events \o <<"tool_call", "tool_call", "append">>
      /\ IF t.return_direct
         THEN /\ pc' = "finished"
              /\ result' = Success(DirectOutput(oc.observation),
                                   intermediate_steps')
              /\ iterations' = iterations
         ELSE /\ iterations' = iterations + 1
              /\ LoopTest(iterations + 1, intermediate_steps')

\* _take_next_step for a tool of name_to_tool_map, then the loop body:
\* run the tool, record the step, return directly when the tool is
\* return_direct, else count the iteration and test the loop
RunTool ==
    LET t == ToolNamed(parsed.tool) IN
    \E oc \in ToolOutcomes(t, parsed.tool_input) :
      /\ tool_calls' = Append(tool_calls,
             [tool |-> t.name, tool_input |-> parsed.tool_input])
      /\ IF oc.raised
         THEN /\ pc' = "failed"
              /\ result' = Failure("Exception", <<oc.observation.text>>)
              /\ events' = Append(events, "tool_call")
              /\ UNCHANGED <<intermediate_steps, iterations>>
         ELSE LET steps == Append(intermediate_steps,
                             [action |-> parsed,
                              observation |-> oc.observation])
              IN  /\ intermediate_steps' = steps
                  /\ events' = events \o <<"tool_call", "append">>
                  /\ IF t.return_direct
                     THEN /\ pc' = "finished"
                          /\ result' = Success(DirectOutput(oc.observation),
                                               steps)
                          /\ iterations' = iterations
                     ELSE /\ iterations' = iterations + 1
                          /\ LoopTest(iterations + 1, steps)

\* an unlisted tool name fails the run
RunInvalidToolFails ==
    /\ pc' = "failed"
    /\ result' = Failure("ValueError", <<"invalid tool">>)
    /\ UNCHANGED <<intermediate_steps, events, tool_calls, iterations>>

\* _take_next_step for a name outside name_to_tool_map: InvalidTool's
\* message is the observation, no tool runs, and the loop goes on
RunInvalidTool ==
    LET steps == Append(intermediate_steps,
                    [action |-> parsed,
                     observation |-> InvalidToolObservation(parsed.tool)])
    IN  /\ intermediate_steps' = steps
        /\ events' = Append(events, "append")
        /\ tool_calls' = tool_calls
        /\ iterations' = iterations + 1
        /\ LoopTest(iterations + 1, steps)

\* the second half of an iteration, after the parser returned an action
Act ==
    /\ pc = "acting"
    /\ UNCHANGED <<inputs, tools, llm_output, parsed, cb_calls, formatted>>
    /\ IF KnownTool(parsed.tool) THEN RunTool ELSE RunInvalidTool

Next == Setup \/ Think \/ Act

Spec == Init /\ [][Next]_vars

\* every call the run blocks on (the model, a tool) returns, so a step that
\* can be taken is taken
FairSpec == Spec /\ WF_vars(Next)

\* ----------------------------------------------- the parser on its own
Alphabet == {FinalMarker, ActionMarker, InputMarker, NL, SP, QUOTE, Word}

\* the worked examples of the parser's grammar
ExampleTexts ==
    {<<"Thought:", SP, "x", NL, ActionMarker, SP, "search", NL, InputMarker,
       SP, QUOTE, "hello", SP, "world", QUOTE, NL>>,
     <<FinalMarker, SP, "A", NL, FinalMarker, SP, "B">>,
     <<ActionMarker, SP, "search", NL, InputMarker, SP, "q", NL,
       FinalMarker, SP, "A", NL, FinalMarker, SP, "B", NL>>,
     <<"I", SP, "am", SP, "thinking...">>}

ParserTexts ==
    UNION {[1..n -> Alphabet] : n \in 0..MaxTextLen} \cup ExampleTexts

InitParse ==
    /\ pc = "parser"
    /\ llm_output \in ParserTexts
    /\ parsed = NotParsed
    /\ actor = "assistant"
    /\ chat_history = <<>>
    /\ tool_names = <<>>
    /\ max_iterations = 0
    /\ thoughts_cb = FALSE
    /\ tools = <<>>
    /\ intermediate_steps = <<>>
    /\ iterations = 0
    /\ result = NoResult
    /\ events = <<>>
    /\ tool_calls = <<>>
    /\ cb_calls = <<>>
    /\ formatted = NotFormatted

\* output_parser.parse(llm_output)
ParseStep ==
    /\ pc = "parser"
    /\ pc' = "parsed"
    /\ parsed' = Parse(llm_output)
    /\ UNCHANGED <<inputs, tools, intermediate_steps, iterations, llm_output,
                   result, events, tool_calls, cb_calls, formatted>>

SpecParse == InitParse /\ [][ParseStep]_vars

\* -------------------------------------------- the formatter on its own
SearchStep ==
    [action |-> Parse(ActionText("search", JsonPayload)),
     observation |-> [kind |-> "str", text |-> "search result"]]
BogusStep ==
    [action |-> Parse(ActionText("bogus", Word)),
     observation |-> InvalidToolObservation(<<"bogus">>)]

\* traces the formatter is given
FormatTraces ==
    {<<>>, <<SearchStep>>, <<BogusStep>>, <<SearchStep, BogusStep>>,
     <<BogusStep, SearchStep>>}

InitFormat ==
    /\ pc = "formatter"
    /\ actor \in Personas
    /\ chat_history \in Histories
    /\ thoughts_cb \in BOOLEAN
    /\ tools \in {<<>>, <<stable_diffusion>>, <<blip_2, search_tool>>}
    /\ intermediate_steps \in FormatTraces
    /\ tool_names = <<>>
    /\ max_iterations = 0
    /\ iterations = 0
    /\ llm_output = <<>>
    /\ parsed = NotParsed
    /\ result = NoResult
    /\ events = <<>>
    /\ tool_calls = <<>>
    /\ cb_calls = <<>>
    /\ formatted = NotFormatted

\* a formatter that writes the label into the history it was given
FormatStepLabelsHistory ==
    /\ pc \in {"formatter", "formatted"}
    /\ Len(events) < MaxFormatCalls
    /\ events' = Append(events, "format")
    /\ cb_calls' = cb_calls \o CallbackCalls(thoughts_cb, intermediate_steps)
    /\ chat_history' = <<HistoryLabel>> \o chat_history
    /\ formatted' = FormatMessages(intermediate_steps, tools, chat_history',
                                   actor)
    /\ pc' = "formatted"
    /\ UNCHANGED <<actor, tool_names, max_iterations, thoughts_cb, tools,
                   intermediate_steps, iterations, llm_output, parsed, result,
                   tool_calls>>

\* prompt_template.format_messages(input=..., intermediate_steps=...)
FormatStep ==
    /\ pc \in {"formatter", "formatted"}
    /\ Len(events) < MaxFormatCalls
    /\ events' = Append(events, "format")
    /\ cb_calls' = cb_calls \o CallbackCalls(thoughts_cb, intermediate_steps)
    /\ IF FormatRaises(actor)
       THEN pc' = "format_failed" /\ formatted' = formatted
       ELSE /\ pc' = "formatted"
            /\ formatted' = FormatMessages(intermediate_steps, tools,
                                           chat_history, actor)
    /\ UNCHANGED <<inputs, tools, intermediate_steps, iterations, llm_output,
                   parsed, result, tool_calls>>

\* the same template built with, or without, a thoughts_cb
SetCallback ==
    /\ pc \in {"formatter", "formatted"}
    /\ thoughts_cb' = ~thoughts_cb
    /\ UNCHANGED <<pc, actor, chat_history, tool_names, max_iterations, tools,
                   intermediate_steps, iterations, llm_output, parsed, result,
                   events, tool_calls, cb_calls, formatted>>

NextFormat == FormatStep \/ SetCallback

SpecFormat == InitFormat /\ [][NextFormat]_vars

\* ===================================================== claims' helpers
Steps == intermediate_steps
LastStep == Steps[Len(Steps)]
Terminal == pc \in {"finished", "failed"}
ModelCalls == Cardinality({k \in 1..Len(events) : events[k] = "model_call"})
EventsEndWith(tail) ==
    /\ Len(events) >= Len(tail)
    /\ SubSeq(events, Len(events) - Len(tail) + 1, Len(events)) = tail

\* the pending or last handled action names no tool of the resolved set
UnlistedAction ==
    /\ parsed.kind = "AgentAction"
    /\ \A i \in 1..Len(tools) : parsed.tool # <<tools[i].name>>

IsAdapterFailure(o) == o.kind = "dict" /\ ~o.success

StepKnown(k) ==
    \E i \in 1..Len(tools) : Steps[k].action.tool = <<tools[i].name>>

ToolOfStep(k) ==
    tools[CHOOSE i \in 1..Len(tools) : Steps[k].action.tool = <<tools[i].name>>]

\* the run stopped, the model never gave a final answer and every action
\* named a resolved tool
CapRun ==
    /\ pc = "finished"
    /\ parsed.kind # "AgentFinish"
    /\ \A k \in 1..Len(Steps) : StepKnown(k)

MatchesAction(text) ==
    \E i \in 1..Len(text) : \E j \in (i + 2)..Len(text) :
        text[i] = ActionMarker /\ text[i + 1] = SP /\ text[j] = InputMarker

\* s without one double quote at its start and one at its end, if present
StripOneQuote(s) ==
    LET a == IF s # <<>> /\ s[1] = QUOTE THEN Tail(s) ELSE s
    IN  IF a # <<>> /\ a[Len(a)] = QUOTE THEN SubSeq(a, 1, Len(a) - 1) ELSE a

\* C4 as stated: for a text without "Final Answer:" that matches the action
\* pattern, parse returns the captured name trimmed and the captured input
\* trimmed of all surrounding whitespace and then of at most one double
\* quote at each end.
C4_ActionGrammar ==
    (pc = "parsed" /\ ~Contains(llm_output, FinalMarker)
     /\ MatchesAction(llm_output))
        => /\ parsed.kind = "AgentAction"
           /\ parsed.tool = Strip(ReSearch(llm_output).group1)
           /\ parsed.tool_input
                = StripOneQuote(Strip(ReSearch(llm_output).group2))

\* ------------------------------------------------------------------ C5
\* out is s without its leading and trailing whitespace
IsTrimOf(out, s) ==
    /\ out # <<>> => out[1] \notin Whitespace /\ out[Len(out)] \notin Whitespace
    /\ \E a \in 0..Len(s) :
          /\ a + Len(out) <= Len(s)
          /\ SubSeq(s, a + 1, a + Len(out)) = out
          /\ \A m \in 1..a : s[m] \in Whitespace
          /\ \A m \in (a + Len(out) + 1)..Len(s) : s[m] \in Whitespace

\* C5: a text containing "Final Answer:" parses to a final answer whose text
\* is what follows the last marker, trimmed, also when the text holds a
\* well-formed Action / Action Input pair.
C5_FinalAnswerPrecedence ==
    (pc = "parsed" /\ \E k \in 1..Len(llm_output) : llm_output[k] = FinalMarker)
        => /\ parsed.kind = "AgentFinish"
           /\ parsed.log = llm_output
           /\ \E k \in 1..Len(llm_output) :
                 /\ llm_output[k] = FinalMarker
                 /\ \A m \in (k + 1)..Len(llm_output) :
                       llm_output[m] # FinalMarker
                 /\ IsTrimOf(parsed.output,
                             SubSeq(llm_output, k + 1, Len(llm_output)))

C5_Witness ==
    /\ pc = "parsed"
    /\ Cardinality({k \in 1..Len(llm_output) : llm_output[k] = FinalMarker}) = 2
    /\ MatchesAction(llm_output)
    /\ parsed.kind = "AgentFinish"
    /\ parsed.output = <<"B">>

\* ------------------------------------------------------------------ C6
\* the text has no "Final Answer:" and does not match the action pattern
Unparsable(text) ==
    /\ \A k \in 1..Len(text) : text[k] # FinalMarker
    /\ ~MatchesAction(text)

\* C6: when the model's text neither contains "Final Answer:" nor matches
\* the action pattern, the parse fails with an error carrying the text and
\* the run has failed (success = false): the model was called once for that
\* iteration and no tool was invoked after it.
C6_GrammarFailureFailsRun ==
    (parsed # NotParsed /\ pc \notin {"parser", "parsed"}
     /\ Unparsable(llm_output))
        => /\ pc = "failed"
           /\ result.returned /\ ~result.success
           /\ result.error.class = "ValueError"
           /\ result.error.args
                = <<"Could not parse LLM output: ">> \o llm_output
           /\ EventsEndWith(<<"model_call">>)
           /\ ModelCalls = Len(Steps) + 1
           /\ Len(tool_calls) <= Len(Steps)

C6_Witness ==
    /\ parsed # NotParsed /\ Unparsable(llm_output) /\ pc = "failed"
    /\ Len(Steps) = 1 /\ Len(tool_calls) = 1

\* ------------------------------------------------------------------ C7
\* C7 as stated: the progress callback is not invoked while the trace is
\* empty.
C7_NoCallbackOnEmptyTrace ==
    Steps = <<>> => cb_calls = <<>>

\* ------------------------------------------------------------------ C8
\* actionLog + "\n\nObservation: " + observation, trimmed
StepReport(k) ==
    Strip(Steps[k].action.log
          \o <<NL, NL, "Observation: ", ObsText(Steps[k].observation)>>)

\* C8 as stated: over a run with a callback configured, the callback has
\* been invoked exactly once per completed step when the run ends, the k-th
\* invocation carrying step k's report.
C8_CallbackOncePerStep ==
    (Terminal /\ thoughts_cb)
        => /\ Len(cb_calls) = Len(Steps)
           /\ \A k \in 1..Len(Steps) : cb_calls[k] = StepReport(k)

\* ------------------------------------------------------------------ C9
\* C9: handle_chat_with_agents returns a structured result in every case: a
\* run in which something was raised (setup, formatting, model call, parse,
\* tool) returns {success: false, error}, every other run returns
\* success = true, and nothing is returned before the run ends.
C9_StructuredResult ==
    /\ pc = "failed" =>
          /\ result.returned /\ ~result.success
          /\ DOMAIN result = {"returned", "success", "error"}
          /\ result.error.args # <<>>
    /\ pc = "finished" =>
          /\ result.returned /\ result.success
          /\ DOMAIN result
               = {"returned", "success", "output", "intermediate_steps"}
    /\ pc \in {"setup", "thinking", "acting"} => result = NoResult

C9_Witness ==
    /\ pc = "failed" /\ ~result.success
    /\ result.error.class = "Exception" /\ Len(tool_calls) = 2

\* ----------------------------------------------------------------- C10
\* C10: the trace never holds more than maxIterations steps.
C10_TraceWithinCap == Len(intermediate_steps) <= max_iterations

C10_Witness ==
    /\ Len(intermediate_steps) = max_iterations /\ max_iterations = 2
    /\ pc = "finished"

\* ----------------------------------------------------------------- C11
\* C11: whatever texts the model produces, a run whose model and tool calls
\* all return reaches a terminal state: finished (final answer, direct
\* return or iteration cap) or failed.
C11_RunTerminates == <>(pc \in {"finished", "failed"})

C11_Witness ==
    /\ pc = "finished" /\ result.output = StoppedOutput
    /\ Len(Steps) = 2 /\ ModelCalls = 2

\* ----------------------------------------------------------------- C12
\* C12: with an empty history the chat_history section of the prompt is the
\* empty string and the label appears nowhere in the message; with a
\* non-empty history the section is the label line followed by the entries,
\* in their order, joined by newlines.
C12_HistoryRendering ==
    formatted # NotFormatted =>
        LET section == formatted.chat_history
            n == Len(chat_history)
        IN  IF n = 0
            THEN /\ section = <<>>
                 /\ \A k \in 1..Len(formatted.content) :
                       formatted.content[k] # "Previous conversation history:"
            ELSE /\ Len(section) = 2 * n + 1
                 /\ section[1] = "Previous conversation history:"
                 /\ \A i \in 1..n :
                       section[2 * i] = NL /\ section[2 * i + 1] = chat_history[i]
                 /\ \E k \in 1..Len(formatted.content) :
                       SubSeq(formatted.content, k, k + 2 * n) = section

C12_Witness ==
    /\ pc = "formatted" /\ chat_history = <<>> /\ formatted.chat_history = <<>>
    /\ Len(formatted.content) > 0 /\ intermediate_steps # <<>>

C14_FinalAnswerFinishes ==
    (pc = "finished" /\ parsed.kind = "AgentFinish") =>
        /\ result.success
        /\ result.output.kind = "text"
        /\ \E m \in 1..Len(llm_output) :
              /\ llm_output[m] = FinalMarker
              /\ \A j \in (m + 1)..Len(llm_output) :
                    llm_output[j] # FinalMarker
              /\ IsTrimOf(result.output.text,
                          SubSeq(llm_output, m + 1, Len(llm_output)))
        /\ result.intermediate_steps = Steps
        /\ Len(Steps) = ModelCalls - 1
        /\ EventsEndWith(<<"model_call">>)
        /\ Len(tool_calls) <= Len(Steps)

C14_Witness ==
    /\ pc = "finished" /\ parsed.kind = "AgentFinish"
    /\ Len(Steps) = 1 /\ Len(tool_calls) = 1
    /\ result.intermediate_steps = Steps

\* ----------------------------------------------------------------- C15
\* C15: a failed run carries success = false and an error description, and
\* from the failure on nothing happens: no model call, no tool invocation,
\* no step appended, the result is not replaced.  A parse failure is such a
\* failure: nothing follows the model call whose text did not parse.
RunFailed == pc = "failed" \/ parsed.kind = "ValueError"

C15_FailedIsTerminal ==
    /\ [](RunFailed =>
            /\ pc = "failed"
            /\ result.returned /\ ~result.success
            /\ result.error.class \in {"ValueError", "Exception", "KeyError",
                                       "BackendError"}
            /\ DOMAIN result = {"returned", "success", "error"})
    /\ [][RunFailed =>
            /\ events' = events
            /\ tool_calls' = tool_calls
            /\ intermediate_steps' = intermediate_steps
            /\ result' = result
            /\ pc' = pc]_vars

C15_Witness ==
    /\ pc = "failed" /\ parsed.kind = "ValueError" /\ Len(Steps) = 1
    /\ EventsEndWith(<<"append", "model_call">>)

\* ----------------------------------------------------------------- C16
\* C16: an image/audio adapter never raises into the loop.  Every
\* invocation of such a tool returns and is recorded as a step whose
\* observation is a dictionary: success = true with the job record, or
\* success = false with an error; an input that does not decode gives the
\* failure value.  A run that failed on a tool invocation failed on a tool
\* that is not one of the adapters.
IsAdapterName(name) ==
    \E i \in 1..Len(ReplicateTools) : ReplicateTools[i].name = name

AdapterCalls ==
    {k \in 1..Len(tool_calls) : IsAdapterName(tool_calls[k].tool)}

AdapterSteps ==
    {k \in 1..Len(Steps) :
        StepKnown(k) /\ ToolOfStep(k).adapter = "replicate"}

C16_AdapterNeverRaises ==
    /\ Cardinality(AdapterCalls) = Cardinality(AdapterSteps)
    /\ (pc = "failed" /\ EventsEndWith(<<"tool_call">>)) =>
          ~IsAdapterName(tool_calls[Len(tool_calls)].tool)
    /\ \A k \in AdapterSteps :
          LET o == Steps[k].observation IN
          /\ o.kind = "dict"
          /\ IF o.success
             THEN DOMAIN o = {"kind", "success", "replicate", "input", "model"}
             ELSE /\ DOMAIN o = {"kind", "success", "error"}
                  /\ o.error \in {"DecodeError", "BackendError"}
          /\ ~InputDecodes(Steps[k].action.tool_input) =>
                (~o.success /\ o.error = "DecodeError")

C16_Witness ==
    /\ Len(Steps) = 1 /\ 1 \in AdapterSteps
    /\ ~InputDecodes(Steps[1].action.tool_input)
    /\ Steps[1].observation.error = "DecodeError"
    /\ pc = "finished"

\* ----------------------------------------------------------------- C17
IsAdapterSuccess(k) ==
    /\ k \in AdapterSteps
    /\ Steps[k].observation.success

\* C17 as stated: a successful adapter result carries the adapter's
\* output_type tag and holds no backend version identifier anywhere.
C17_NoVersionAnywhere ==
    \A k \in 1..Len(Steps) :
        IsAdapterSuccess(k) =>
            LET o == Steps[k].observation IN
            /\ o.replicate.output_type = ToolOfStep(k).output_type
            /\ "version" \notin o.replicate.keys
            /\ "version" \notin DOMAIN o.model

\* C17 amended: a successful adapter result carries the adapter's
\* output_type tag in its job record and the job record has no version
\* key; the backend version identifier is still handed back, in the
\* result's model entry, next to the model name.
C17_VersionOnlyInModelEntry ==
    \A k \in 1..Len(Steps) :
        IsAdapterSuccess(k) =>
            LET o == Steps[k].observation
                t == ToolOfStep(k)
            IN  /\ o.replicate.output_type = t.output_type
                /\ "output_type" \in o.replicate.keys
                /\ "version" \notin o.replicate.keys
                /\ o.model = [name |-> t.model_name,
                              version |-> t.model_version]
                /\ o.input = Steps[k].action.tool_input

C17_Witness ==
    /\ Len(Steps) = 1 /\ IsAdapterSuccess(1)
    /\ Steps[1].observation.model.version = ToolOfStep(1).model_version
    /\ pc = "finished" /\ result.success

\* ----------------------------------------------------------------- C18
\* the model calls and tool invocations of the run, in order
Calls ==
    SelectSeq(events, LAMBDA e : e \in {"model_call", "tool_call"})

\* position in events of the k-th append
AppendPos(k) ==
    CHOOSE i \in 1..Len(events) :
        /\ events[i] = "append"
        /\ Cardinality({j \in 1..i : events[j] = "append"}) = k

\* the steps whose action named a resolved tool, in order
KnownSteps ==
    SelectSeq([k \in 1..Len(Steps) |-> k], LAMBDA k : StepKnown(k))

\* every invocation is the action of a step, or the action at hand when the
\* invocation raised
InvocationsFollowActions ==
    LET K == KnownSteps IN
    /\ Len(tool_calls) \in {Len(K), Len(K) + 1}
    /\ \A j \in 1..Len(tool_calls) :
          LET a == IF j <= Len(K) THEN Steps[K[j]].action ELSE parsed IN
          /\ a.kind = "AgentAction"
          /\ a.tool = <<tool_calls[j].tool>>
          /\ a.tool_input = tool_calls[j].tool_input
    /\ Len(tool_calls) = Len(K) + 1 =>
          (pc = "failed" /\ EventsEndWith(<<"model_call", "tool_call">>))

AllReplicate ==
    /\ pc # "setup"
    /\ \A i \in 1..Len(tools) : tools[i].adapter = "replicate"

CatalogReturnsDirect ==
    \A i \in 1..Len(ReplicateTools) : ReplicateTools[i].return_direct

\* the first invocation ended the run with the tool's result as its output
FirstInvocationEndsRun ==
    tool_calls # <<>> =>
        /\ Len(tool_calls) = 1
        /\ pc = "finished" /\ result.success
        /\ EventsEndWith(<<"model_call", "tool_call", "append">>)
        /\ StepKnown(Len(Steps))
        /\ result.output = DirectOutput(LastStep.observation)
        /\ result.intermediate_steps = Steps

====
